---- MODULE Spec2Model ----
(***************************************************************************)
(* A model of server.js: the REST layer in front of the managed database   *)
(* (tables users, images, activities), the object storage (bucket images)   *)
(* and the external image generator.                                        *)
(*                                                                          *)
(* Every await on the database, the storage or the generator is one atomic  *)
(* step of a request; the synchronous code around it belongs to the step.   *)
(* A dependency call may answer with an error (the `fail` input of a step). *)
(***************************************************************************)
EXTENDS Integers, Sequences, FiniteSets

VARIABLES now, gate, users, images, objects, activities,
          nextUserId, nextImageId, stamp, reqs

vars == <<now, gate, users, images, objects, activities,
          nextUserId, nextImageId, stamp, reqs>>

----------------------------------------------------------------------------
(* Bounds of the model *)

\* the clock (in days) runs from 0 to MaxTime
MaxTime == 2
\* user ids that tokens of the gate specification may carry
MaxTokUser == 2

(* Program constants *)

\* jwt.sign(..., { expiresIn: '1d' }), the clock counting days
ExpiresIn == 1
\* prompt.substring(0, 100)
SnippetLen == 100
\* bcrypt.hash(password, 12)
BcryptRounds == 12
\* minLength = password.length >= 8
MinPwLen == 8

AdminEmail == "admin@dreamina.com"
UserEmail == "user@mail.io"
Emails == {AdminEmail, UserEmail}

----------------------------------------------------------------------------
(* Bearer tokens.  A token is the record of the claims it was signed over    *)
(* and of the key that signed it; role "none" is a token without role claim. *)

Secret == "JWT_SECRET"
Roles == {"none", "user", "admin"}

Tokens == [userId : 1..MaxTokUser, email : Emails, role : Roles,
           exp : 0..(MaxTime + ExpiresIn), key : {Secret, "other"}]

\* jwt.sign({ userId, email }, JWT_SECRET, { expiresIn: '1d' }) at time t
JwtSign(id, email, t) ==
    [userId |-> id, email |-> email, role |-> "none",
     exp |-> t + ExpiresIn, key |-> Secret]

\* the claims jwt.verify returns
Decoded(tok) ==
    [userId |-> tok.userId, email |-> tok.email, role |-> tok.role, exp |-> tok.exp]

NoClaims == [userId |-> 0, email |-> "", role |-> "none", exp |-> 0]

\* a word of a header that is no token
Lit(s) == [lit |-> s]
IsJwt(w) == "key" \in DOMAIN w

\* jwt.verify(token, JWT_SECRET) does not throw: the token is well formed, signed
\* with the secret, and not expired (jsonwebtoken rejects clock >= exp)
JwtVerifies(w, t) == IsJwt(w) /\ w.key = Secret /\ t < w.exp

(* An Authorization header is the sequence of its words, the pieces between    *)
(* single spaces: authHeader.split(' ').  <<>> is the absent header.           *)

\* !authHeader: undefined or the empty string
HeaderAbsent(h) == h = <<>> \/ h = <<Lit("")>>

\* authHeader.startsWith('Bearer ')
StartsWithBearer(h) == Len(h) >= 2 /\ h[1] = Lit("Bearer")

\* authHeader.split(' ')[1]
HeaderToken(h) == h[2]

Bearer(tok) == <<Lit("Bearer"), tok>>

ProtectSkipsVerify(h, t) ==
    IF HeaderAbsent(h) \/ ~StartsWithBearer(h)
    THEN [status |-> 401, next |-> FALSE, user |-> NoClaims,
          error |-> "Not authenticated, no token provided."]
    ELSE IF IsJwt(HeaderToken(h))
    THEN [status |-> 0, next |-> TRUE, user |-> Decoded(HeaderToken(h)), error |-> ""]
    ELSE [status |-> 401, next |-> FALSE, user |-> NoClaims,
          error |-> "Not authenticated, token is invalid."]

\* protect(req, res, next): status 0 is "no response sent by the middleware"
protect(h, t) ==
    IF HeaderAbsent(h) \/ ~StartsWithBearer(h)
    THEN [status |-> 401, next |-> FALSE, user |-> NoClaims,
          error |-> "Not authenticated, no token provided."]
    ELSE IF JwtVerifies(HeaderToken(h), t)
    THEN [status |-> 0, next |-> TRUE, user |-> Decoded(HeaderToken(h)), error |-> ""]
    ELSE [status |-> 401, next |-> FALSE, user |-> NoClaims,
          error |-> "Not authenticated, token is invalid."]

adminProtectAndForOr(h, t) ==
    IF HeaderAbsent(h) \/ ~StartsWithBearer(h)
    THEN [status |-> 401, next |-> FALSE, user |-> NoClaims,
          error |-> "Not authenticated, no token provided."]
    ELSE IF JwtVerifies(HeaderToken(h), t)
    THEN LET decoded == Decoded(HeaderToken(h)) IN
         IF decoded.email # AdminEmail \/ decoded.role # "admin"
         THEN [status |-> 403, next |-> FALSE, user |-> NoClaims,
               error |-> "Access denied. Admin privileges required."]
         ELSE [status |-> 0, next |-> TRUE, user |-> decoded, error |-> ""]
    ELSE [status |-> 401, next |-> FALSE, user |-> NoClaims,
          error |-> "Invalid admin token."]

\* adminProtect(req, res, next)
adminProtect(h, t) ==
    IF HeaderAbsent(h) \/ ~StartsWithBearer(h)
    THEN [status |-> 401, next |-> FALSE, user |-> NoClaims,
          error |-> "Not authenticated, no token provided."]
    ELSE IF JwtVerifies(HeaderToken(h), t)
    THEN LET decoded == Decoded(HeaderToken(h)) IN
         IF decoded.email # AdminEmail /\ decoded.role # "admin"
         THEN [status |-> 403, next |-> FALSE, user |-> NoClaims,
               error |-> "Access denied. Admin privileges required."]
         ELSE [status |-> 0, next |-> TRUE, user |-> decoded, error |-> ""]
    ELSE [status |-> 401, next |-> FALSE, user |-> NoClaims,
          error |-> "Invalid admin token."]

\* the routes behind protect and behind adminProtect
ProtectedRoutes ==
    {"POST /api/generate-image", "GET /api/my-creations", "DELETE /api/images/:imageId",
     "GET /api/profile", "PATCH /api/profile", "PATCH /api/change-password",
     "GET /api/test-activities", "GET /api/activities", "POST /api/activities/log"}
AdminRoutes ==
    {"GET /api/admin/users", "GET /api/admin/stats",
     "GET /api/admin/users/:userId", "DELETE /api/admin/users/:userId"}

\* the headers a client may send
Schemes == {Lit("Bearer"), Lit("Basic"), Lit("bearer")}
Creds == Tokens \cup {Lit("junk"), Lit("")}
Headers ==
    {<<>>, <<Lit("")>>, <<Lit("Bearer")>>, <<Lit("junk")>>}
    \cup {<<s, c>> : s \in Schemes, c \in Creds}
    \cup {<<Lit("Bearer"), Lit(""), c>> : c \in Tokens}
    \cup {<<Lit("Bearer"), c, Lit("junk")>> : c \in Tokens}

NoGate == [mw |-> "none", route |-> "", hdr |-> <<>>, at |-> 0,
           status |-> 0, ran |-> FALSE, user |-> NoClaims]

----------------------------------------------------------------------------
(* Passwords are sequences of characters.                                    *)

UpperChars == {"A", "B", "Z"}
\* the class [!@#$%^&*(),.?":{}|<>]
SpecialChars == {"!", "@", "#", "$", "%", "^", "&", "*", "(", ")", ",", ".",
                 "?", "\"", ":", "{", "}", "|", "<", ">"}

\* a password of n characters, with an uppercase letter and a special character
\* where asked (n >= 2)
MkPw(n, upper, special) ==
    [i \in 1..n |-> IF i = 1 /\ upper THEN "A"
                    ELSE IF i = 2 /\ special THEN "!"
                    ELSE "a"]

Null == "null"
MsgMinLength == "Mat khau phai co it nhat 8 ky tu"
MsgUppercase == "Mat khau phai co it nhat 1 chu cai viet hoa"
MsgSpecial == "Mat khau phai co it nhat 1 ky tu dac biet (!@#$%^&*)"

validatePasswordLongerThanMin(password) ==
    LET minLength == Len(password) > MinPwLen
        hasUppercase == \E i \in 1..Len(password) : password[i] \in UpperChars
        hasSpecialChar == \E i \in 1..Len(password) : password[i] \in SpecialChars
    IN [isValid |-> minLength /\ hasUppercase /\ hasSpecialChar,
        errors |-> [minLength |-> IF ~minLength THEN MsgMinLength ELSE Null,
                    hasUppercase |-> IF ~hasUppercase THEN MsgUppercase ELSE Null,
                    hasSpecialChar |-> IF ~hasSpecialChar THEN MsgSpecial ELSE Null]]

\* validatePassword(password)
validatePassword(password) ==
    LET minLength == Len(password) >= MinPwLen
        hasUppercase == \E i \in 1..Len(password) : password[i] \in UpperChars
        hasSpecialChar == \E i \in 1..Len(password) : password[i] \in SpecialChars
    IN [isValid |-> minLength /\ hasUppercase /\ hasSpecialChar,
        errors |-> [minLength |-> IF ~minLength THEN MsgMinLength ELSE Null,
                    hasUppercase |-> IF ~hasUppercase THEN MsgUppercase ELSE Null,
                    hasSpecialChar |-> IF ~hasSpecialChar THEN MsgSpecial ELSE Null]]

\* Object.values(passwordValidation.errors).filter(Boolean)
errorMessages(v) ==
    SelectSeq(<<v.errors.minLength, v.errors.hasUppercase, v.errors.hasSpecialChar>>,
              LAMBDA m : m # Null)

\* bcrypt.hash(password, 12): the salt is left out, the hash is not the password
BcryptHash(password) == [alg |-> "bcrypt", rounds |-> BcryptRounds, of |-> password]
\* bcrypt.compare(password, hash)
BcryptCompare(password, hash) == hash.of = password

----------------------------------------------------------------------------
(* The managed database.  A table is the set of its rows; ids are generated  *)
(* by the database and never reused.                                         *)

NoRow == [id |-> 0]

\* .single(): the query must yield exactly one row, otherwise (no row, several
\* rows, or a failed call) data is null and error is set
Single(rows, fail) ==
    IF fail \/ Cardinality(rows) # 1
    THEN [data |-> NoRow, error |-> TRUE]
    ELSE [data |-> CHOOSE r \in rows : TRUE, error |-> FALSE]

UsersByEmail(email) == {u \in users : u.email = email}

----------------------------------------------------------------------------
(* Requests in flight.  Slot s holds one request, from its call to its        *)
(* response; the slots are taken in order.                                    *)

\* requests of the registration and login specification
MaxAuthReqs == 3
\* the clock of the registration and login specification runs to MaxAuthTime
MaxAuthTime == 1

NoToken == [lit |-> "no token"]
NoUrl == [lit |-> "no url"]
NoPath == [lit |-> "no path"]

Idle == [kind |-> "none", pc |-> "idle", hdr |-> <<>>, uid |-> 0,
         fullName |-> "", email |-> "", password |-> <<>>,
         status |-> 0, error |-> "", details |-> <<>>,
         token |-> NoToken, user |-> NoRow,
         imageId |-> 0, target |-> 0, prompt |-> <<>>, image |-> NoRow,
         imageRecord |-> NoRow, imageUrl |-> NoUrl, filePath |-> NoPath,
         filePaths |-> {},
         \* history: what was true when the request read the database, and which
         \* of its dependency calls failed
         stored |-> FALSE, match |-> FALSE, fault |-> FALSE,
         removed |-> FALSE, logged |-> FALSE,
         \* the `details` of a 500 (error.message) and, as history, the step
         \* whose failure it reports
         message |-> "", failedAt |-> "",
         \* PATCH /api/change-password and PATCH /api/profile: the new password,
         \* the row the handler read, the body and file of the profile form and
         \* the avatar url the handler computed
         newPassword |-> <<>>, row |-> NoRow, body |-> [none |-> TRUE],
         file |-> "", avatarUrl |-> NoUrl,
         \* the listings: the query, the rows returned and the pagination object
         query |-> [none |-> TRUE], data |-> <<>>, pagination |-> [none |-> TRUE]]

Free(s) == reqs[s].pc = "idle" /\ (IF s = 1 THEN TRUE ELSE reqs[s - 1].pc # "idle")
Done(s) == reqs[s].pc = "done"

Respond(r, status, error) == [r EXCEPT !.pc = "done", !.status = status, !.error = error]

PwGood == MkPw(8, TRUE, TRUE)
PwOther == MkPw(9, TRUE, TRUE)

\* the bodies of POST /api/auth/register
RegisterBodies ==
    [fullName : {"Ann"}, email : Emails, password : {PwGood}]
    \cup {[fullName |-> "", email |-> UserEmail, password |-> PwGood],
          [fullName |-> "Ann", email |-> UserEmail, password |-> MkPw(7, TRUE, FALSE)]}

\* the bodies of POST /api/auth/login
LoginBodies ==
    [email : Emails, password : {PwGood, PwOther}]
    \cup {[email |-> UserEmail, password |-> <<>>]}

\* app.post('/api/auth/register'), up to the answer of the existence lookup
Register(s, body, fail) ==
    /\ Free(s)
    /\ LET r == [Idle EXCEPT !.kind = "register", !.fullName = body.fullName,
                             !.email = body.email, !.password = body.password]
           v == validatePassword(body.password)
           existingUser == Single(UsersByEmail(body.email), fail).data
       IN reqs' = [reqs EXCEPT ![s] =
            IF body.email = "" \/ body.password = <<>> \/ body.fullName = ""
            THEN Respond(r, 400, "Vui long cung cap day du ho ten, email va mat khau.")
            ELSE IF ~v.isValid
            THEN [Respond(r, 400, "Mat khau khong dap ung yeu cau bao mat")
                    EXCEPT !.details = errorMessages(v)]
            ELSE IF existingUser # NoRow
            THEN [Respond(r, 400, "Email da ton tai trong he thong.")
                    EXCEPT !.stored = TRUE]
            ELSE [r EXCEPT !.pc = "reg_insert", !.fault = fail,
                           !.stored = UsersByEmail(body.email) # {}]]
    /\ UNCHANGED <<now, gate, users, images, objects, activities,
                   nextUserId, nextImageId, stamp>>

\* app.post('/api/auth/register'): bcrypt.hash, the insert and the response
RegisterInsert(s, fail) ==
    /\ reqs[s].pc = "reg_insert"
    /\ LET r == reqs[s]
           newUser == [id |-> nextUserId, email |-> r.email, full_name |-> r.fullName]
           row == [id |-> nextUserId, email |-> r.email, full_name |-> r.fullName,
                   hashed_password |-> BcryptHash(r.password),
                   bio |-> "", avatar_url |-> NoUrl]
       IN IF fail
          THEN /\ reqs' = [reqs EXCEPT ![s] =
                     [Respond(r, 500, "Loi he thong trong qua trinh dang ky.")
                        EXCEPT !.fault = TRUE]]
               /\ UNCHANGED <<users, nextUserId>>
          ELSE /\ users' = users \cup {row}
               /\ nextUserId' = nextUserId + 1
               /\ reqs' = [reqs EXCEPT ![s] = [Respond(r, 201, "") EXCEPT !.user = newUser]]
    /\ UNCHANGED <<now, gate, images, objects, activities, nextImageId, stamp>>

LoginTellsMissingUser(s, body, fail) ==
    /\ Free(s)
    /\ LET r == [Idle EXCEPT !.kind = "login", !.email = body.email,
                             !.password = body.password,
                             !.stored = UsersByEmail(body.email) # {},
                             !.match = \E u \in UsersByEmail(body.email) :
                                          u.hashed_password = BcryptHash(body.password)]
           q == Single(UsersByEmail(body.email), fail)
           user == q.data
       IN reqs' = [reqs EXCEPT ![s] =
            IF body.email = "" \/ body.password = <<>>
            THEN Respond(r, 400, "Email and password are required.")
            ELSE IF q.error \/ user = NoRow
            THEN Respond(r, 404, "User not found.")
            ELSE IF ~BcryptCompare(body.password, user.hashed_password)
            THEN Respond(r, 401, "Invalid credentials.")
            ELSE [Respond(r, 200, "") EXCEPT
                    !.token = JwtSign(user.id, user.email, now),
                    !.user = [id |-> user.id, fullName |-> user.full_name,
                              email |-> user.email, avatarUrl |-> user.avatar_url]]]
    /\ UNCHANGED <<now, gate, users, images, objects, activities,
                   nextUserId, nextImageId, stamp>>

LoginSkipsCompare(s, body, fail) ==
    /\ Free(s)
    /\ LET r == [Idle EXCEPT !.kind = "login", !.email = body.email,
                             !.password = body.password,
                             !.stored = UsersByEmail(body.email) # {},
                             !.match = \E u \in UsersByEmail(body.email) :
                                          u.hashed_password = BcryptHash(body.password)]
           q == Single(UsersByEmail(body.email), fail)
           user == q.data
       IN reqs' = [reqs EXCEPT ![s] =
            IF body.email = "" \/ body.password = <<>>
            THEN Respond(r, 400, "Email and password are required.")
            ELSE IF q.error \/ user = NoRow
            THEN Respond(r, 401, "Invalid credentials.")
            ELSE [Respond(r, 200, "") EXCEPT
                    !.token = JwtSign(user.id, user.email, now),
                    !.user = [id |-> user.id, fullName |-> user.full_name,
                              email |-> user.email, avatarUrl |-> user.avatar_url]]]
    /\ UNCHANGED <<now, gate, users, images, objects, activities,
                   nextUserId, nextImageId, stamp>>

\* app.post('/api/auth/login'): one lookup, bcrypt.compare, jwt.sign
Login(s, body, fail) ==
    /\ Free(s)
    /\ LET r == [Idle EXCEPT !.kind = "login", !.email = body.email,
                             !.password = body.password,
                             !.stored = UsersByEmail(body.email) # {},
                             !.match = \E u \in UsersByEmail(body.email) :
                                          u.hashed_password = BcryptHash(body.password)]
           q == Single(UsersByEmail(body.email), fail)
           user == q.data
       IN reqs' = [reqs EXCEPT ![s] =
            IF body.email = "" \/ body.password = <<>>
            THEN Respond(r, 400, "Email and password are required.")
            ELSE IF q.error \/ user = NoRow
            THEN Respond(r, 401, "Invalid credentials.")
            ELSE IF ~BcryptCompare(body.password, user.hashed_password)
            THEN Respond(r, 401, "Invalid credentials.")
            ELSE [Respond(r, 200, "") EXCEPT
                    !.token = JwtSign(user.id, user.email, now),
                    !.user = [id |-> user.id, fullName |-> user.full_name,
                              email |-> user.email, avatarUrl |-> user.avatar_url]]]
    /\ UNCHANGED <<now, gate, users, images, objects, activities,
                   nextUserId, nextImageId, stamp>>

\* the clock advances
Tick(max) ==
    /\ now < max
    /\ now' = now + 1
    /\ UNCHANGED <<gate, users, images, objects, activities,
                   nextUserId, nextImageId, stamp, reqs>>

\* a request to a route behind protect: the middleware, then the handler if
\* next() was called
ProtectedRequest(route, h) ==
    /\ LET g == protect(h, now)
       IN gate' = [mw |-> "protect", route |-> route, hdr |-> h, at |-> now,
                   status |-> g.status, ran |-> g.next, user |-> g.user]
    /\ UNCHANGED <<now, users, images, objects, activities,
                   nextUserId, nextImageId, stamp, reqs>>

\* a request to a route behind adminProtect
AdminRequest(route, h) ==
    /\ LET g == adminProtect(h, now)
       IN gate' = [mw |-> "adminProtect", route |-> route, hdr |-> h, at |-> now,
                   status |-> g.status, ran |-> g.next, user |-> g.user]
    /\ UNCHANGED <<now, users, images, objects, activities,
                   nextUserId, nextImageId, stamp, reqs>>

\* the state after construction: empty tables, no request
Init ==
    /\ now = 0
    /\ gate = NoGate
    /\ users = {}
    /\ images = {}
    /\ objects = {}
    /\ activities = <<>>
    /\ nextUserId = 1
    /\ nextImageId = 1
    /\ stamp = 0
    /\ reqs = [s \in 1..MaxAuthReqs |-> Idle]

(* The gates, over every header and every route: a request has arrived, the  *)
(* clock runs, the middleware of its route handles it.                       *)
InitGate ==
    /\ now = 0
    /\ gate \in {[NoGate EXCEPT !.mw = "arrived", !.route = route, !.hdr = h] :
                    route \in ProtectedRoutes \cup AdminRoutes, h \in Headers}
    /\ users = {}
    /\ images = {}
    /\ objects = {}
    /\ activities = <<>>
    /\ nextUserId = 1
    /\ nextImageId = 1
    /\ stamp = 0
    /\ reqs = [s \in 1..MaxAuthReqs |-> Idle]

HandleProtected ==
    /\ gate.mw = "arrived" /\ gate.route \in ProtectedRoutes
    /\ ProtectedRequest(gate.route, gate.hdr)

HandleAdmin ==
    /\ gate.mw = "arrived" /\ gate.route \in AdminRoutes
    /\ AdminRequest(gate.route, gate.hdr)

NextGate == Tick(MaxTime) \/ HandleProtected \/ HandleAdmin

SpecGate == InitGate /\ [][NextGate]_vars

\* a client presents the token a login returned
PresentToken(s) ==
    /\ Done(s) /\ reqs[s].kind = "login" /\ reqs[s].status = 200
    /\ ProtectedRequest("GET /api/profile", Bearer(reqs[s].token))

(* Registration and login, concurrent requests interleaved at their awaits. *)
NextAuth ==
    \/ Tick(MaxAuthTime)
    \/ \E s \in 1..MaxAuthReqs, body \in RegisterBodies, fail \in BOOLEAN :
          Register(s, body, fail)
    \/ \E s \in 1..MaxAuthReqs, fail \in BOOLEAN : RegisterInsert(s, fail)
    \/ \E s \in 1..MaxAuthReqs, body \in LoginBodies, fail \in BOOLEAN :
          Login(s, body, fail)
    \/ \E s \in 1..MaxAuthReqs : PresentToken(s)

SpecAuth == Init /\ [][NextAuth]_vars

----------------------------------------------------------------------------
(* Images: generation, deletion by the owner, deletion of a user by the admin *)

\* requests of the image specification
MaxImgReqs == 2
\* image ids a deletion request may name
MaxImageId == 2

\* `generated/${userId}_${Date.now()}_generated.png`: the clock read t differs
\* from one request to the next (two equal reads make the second upload fail,
\* which is the failed upload of GenerateUpload)
FilePath(userId, t) == [dir |-> "generated", user |-> userId, t |-> t]

\* supabase.storage.from('images').getPublicUrl(filePath).data.publicUrl
PublicUrl(path) == [bucket |-> "images", path |-> path]

\* a prompt of n characters
Prompt(n) == [i \in 1..n |-> IF i % 2 = 1 THEN "f" ELSE "x"]
Prompts == {Prompt(0), Prompt(3), Prompt(SnippetLen + 1)}

Min(a, b) == IF a < b THEN a ELSE b

SubstringWhole(str, from, to) == str
\* str.substring(from, to), 0 <= from <= to
Substring(str, from, to) == SubSeq(str, from + 1, Min(to, Len(str)))

\* logActivity(userId, action, imageId, additionalData): the activities table
\* after the call; a failed insert is logged to the console and dropped.  `by` is
\* history: the request that made the call.
logActivity(log, by, userId, action, imageId, additionalData, fail) ==
    IF fail
    THEN log
    ELSE Append(log, [user_id |-> userId, action |-> action, image_id |-> imageId,
                      additional_data |-> additionalData, by |-> by])

\* the users two registrations and two logins leave behind: the administrator
\* and an ordinary user, each holding the token of a login at time 0
AdminRow == [id |-> 1, email |-> AdminEmail, full_name |-> "Admin",
             hashed_password |-> BcryptHash(PwGood), bio |-> "", avatar_url |-> NoUrl]
UserRow == [id |-> 2, email |-> UserEmail, full_name |-> "Ann",
            hashed_password |-> BcryptHash(PwGood), bio |-> "", avatar_url |-> NoUrl]
AdminHeader == Bearer(JwtSign(AdminRow.id, AdminRow.email, 0))
UserHeader == Bearer(JwtSign(UserRow.id, UserRow.email, 0))
ImgHeaders == {<<>>, AdminHeader, UserHeader}

\* the middleware's refusal, as the response of request r
Refuse(r, g) == Respond(r, g.status, g.error)

\* error.message of what the failing step of the generation throws
ErrorMessage(step) ==
    CASE step = "fetch" -> "Colab API error: 500"
      [] step = "upload" -> "uploadError.message"
      [] step = "insert" -> "dbError.message"

GenerateImageCatchHidesMessage(r, step) ==
    [Respond(r, 500, "Failed to generate image")
        EXCEPT !.fault = TRUE, !.failedAt = step, !.message = "Internal error"]

\* app.post('/api/generate-image'): the catch block
GenerateImageCatch(r, step) ==
    [Respond(r, 500, "Failed to generate image")
        EXCEPT !.fault = TRUE, !.failedAt = step, !.message = ErrorMessage(step)]

\* app.post('/api/generate-image'): protect, the prompt check and the call of
\* the external generator (ok: response.ok)
GenerateImageFetch(s, h, prompt, ok) ==
    /\ Free(s)
    /\ LET g == protect(h, now)
           r == [Idle EXCEPT !.kind = "generate", !.hdr = h, !.prompt = prompt,
                             !.uid = g.user.userId]
       IN reqs' = [reqs EXCEPT ![s] =
            IF ~g.next THEN Refuse(r, g)
            ELSE IF prompt = <<>> THEN Respond(r, 400, "Prompt is required")
            ELSE IF ~ok
            THEN GenerateImageCatch(r, "fetch")
            ELSE [r EXCEPT !.pc = "gen_upload"]]
    /\ UNCHANGED <<now, gate, users, images, objects, activities,
                   nextUserId, nextImageId, stamp>>

\* app.post('/api/generate-image'): the file name and the upload (upsert: false)
GenerateImageUpload(s, fail) ==
    /\ reqs[s].pc = "gen_upload"
    /\ LET r == reqs[s]
           filePath == FilePath(r.uid, stamp + 1)
       IN /\ stamp' = stamp + 1
          /\ IF fail \/ filePath \in objects
             THEN /\ reqs' = [reqs EXCEPT ![s] =
                        GenerateImageCatch(r, "upload")]
                  /\ UNCHANGED objects
             ELSE /\ objects' = objects \cup {filePath}
                  /\ reqs' = [reqs EXCEPT ![s] =
                        [r EXCEPT !.pc = "gen_insert", !.filePath = filePath,
                                  !.imageUrl = PublicUrl(filePath)]]
    /\ UNCHANGED <<now, gate, users, images, activities, nextUserId, nextImageId>>

\* app.post('/api/generate-image'): the insert into images
GenerateImageInsert(s, fail) ==
    /\ reqs[s].pc = "gen_insert"
    /\ LET r == reqs[s]
           imageRecord == [id |-> nextImageId, user_id |-> r.uid, prompt |-> r.prompt,
                           image_url |-> r.imageUrl, file_path |-> r.filePath]
       IN IF fail
          THEN /\ reqs' = [reqs EXCEPT ![s] =
                     GenerateImageCatch(r, "insert")]
               /\ UNCHANGED <<images, nextImageId>>
          ELSE /\ images' = images \cup {imageRecord}
               /\ nextImageId' = nextImageId + 1
               /\ reqs' = [reqs EXCEPT ![s] =
                     [r EXCEPT !.pc = "gen_log", !.imageRecord = imageRecord]]
    /\ UNCHANGED <<now, gate, users, objects, activities, nextUserId, stamp>>

GenerateImageLogThrows(s, fail) ==
    /\ reqs[s].pc = "gen_log"
    /\ LET r == reqs[s] IN
       /\ activities' = logActivity(activities, s, r.uid, "generate", r.imageRecord.id,
                                    [prompt |-> Substring(r.prompt, 0, SnippetLen)], fail)
       /\ reqs' = [reqs EXCEPT ![s] =
             IF fail THEN Respond(r, 500, "Failed to generate image")
             ELSE [Respond(r, 200, "") EXCEPT !.imageId = r.imageRecord.id,
                                              !.logged = TRUE]]
    /\ UNCHANGED <<now, gate, users, images, objects, nextUserId, nextImageId, stamp>>

\* app.post('/api/generate-image'): logActivity and the response
GenerateImageLog(s, fail) ==
    /\ reqs[s].pc = "gen_log"
    /\ LET r == reqs[s] IN
       /\ activities' = logActivity(activities, s, r.uid, "generate", r.imageRecord.id,
                                    [prompt |-> Substring(r.prompt, 0, SnippetLen)], fail)
       /\ reqs' = [reqs EXCEPT ![s] =
             [Respond(r, 200, "") EXCEPT !.imageId = r.imageRecord.id, !.logged = ~fail]]
    /\ UNCHANGED <<now, gate, users, images, objects, nextUserId, nextImageId, stamp>>

\* the rows of images with this id and this owner
ImagesOf(imageId, userId) == {i \in images : i.id = imageId /\ i.user_id = userId}

\* app.delete('/api/images/:imageId'): protect and the lookup by id and owner
DeleteImageFetch(s, h, imageId, fail) ==
    /\ Free(s)
    /\ LET g == protect(h, now)
           userId == g.user.userId
           r == [Idle EXCEPT !.kind = "delete", !.hdr = h, !.imageId = imageId,
                             !.uid = userId]
           q == Single(ImagesOf(imageId, userId), fail)
           image == q.data
       IN reqs' = [reqs EXCEPT ![s] =
            IF ~g.next THEN Refuse(r, g)
            ELSE IF q.error
            THEN [Respond(r, 500, "Loi he thong trong qua trinh xoa hinh anh.")
                    EXCEPT !.fault = fail]
            ELSE IF image = NoRow
            THEN Respond(r, 404, "Hinh anh khong ton tai hoac khong thuoc ve ban.")
            ELSE [r EXCEPT !.pc = "del_storage", !.image = image]]
    /\ UNCHANGED <<now, gate, users, images, objects, activities,
                   nextUserId, nextImageId, stamp>>

\* app.delete('/api/images/:imageId'): the object is removed; a storage error
\* is logged and the handler goes on
DeleteImageStorage(s, fail) ==
    /\ reqs[s].pc = "del_storage"
    /\ LET r == reqs[s] IN
       /\ objects' = IF r.image.file_path # NoPath /\ ~fail
                     THEN objects \ {r.image.file_path} ELSE objects
       /\ reqs' = [reqs EXCEPT ![s] =
             [r EXCEPT !.pc = "del_row", !.fault = fail,
                       !.removed = (r.image.file_path # NoPath /\ ~fail)]]
    /\ UNCHANGED <<now, gate, users, images, activities, nextUserId, nextImageId, stamp>>

DeleteImageRowKept(s, fail) ==
    /\ reqs[s].pc = "del_row"
    /\ reqs' = [reqs EXCEPT ![s] = [reqs[s] EXCEPT !.pc = "del_log"]]
    /\ UNCHANGED <<now, gate, users, images, objects, activities, nextUserId,
                   nextImageId, stamp>>

\* app.delete('/api/images/:imageId'): the row is deleted by id and owner
DeleteImageRow(s, fail) ==
    /\ reqs[s].pc = "del_row"
    /\ LET r == reqs[s] IN
       IF fail
       THEN /\ reqs' = [reqs EXCEPT ![s] =
                  [Respond(r, 500, "Loi he thong trong qua trinh xoa hinh anh.")
                     EXCEPT !.fault = TRUE]]
            /\ UNCHANGED images
       ELSE /\ images' = images \ ImagesOf(r.imageId, r.uid)
            /\ reqs' = [reqs EXCEPT ![s] = [r EXCEPT !.pc = "del_log"]]
    /\ UNCHANGED <<now, gate, users, objects, activities, nextUserId, nextImageId, stamp>>

\* app.delete('/api/images/:imageId'): logActivity and the response
DeleteImageLog(s, fail) ==
    /\ reqs[s].pc = "del_log"
    /\ LET r == reqs[s] IN
       /\ activities' = logActivity(activities, s, r.uid, "delete", r.imageId,
                                    [imageUrl |-> r.image.image_url], fail)
       /\ reqs' = [reqs EXCEPT ![s] = [Respond(r, 200, "") EXCEPT !.logged = ~fail]]
    /\ UNCHANGED <<now, gate, users, images, objects, nextUserId, nextImageId, stamp>>

\* app.delete('/api/admin/users/:userId'): adminProtect and the select of the
\* user's file paths; the storage and row deletions are skipped when the select
\* fails or finds no image
DeleteUserSelect(s, h, userId, fail) ==
    /\ Free(s)
    /\ LET g == adminProtect(h, now)
           r == [Idle EXCEPT !.kind = "deleteUser", !.hdr = h, !.target = userId,
                             !.uid = g.user.userId]
           userImages == {i \in images : i.user_id = userId}
       IN reqs' = [reqs EXCEPT ![s] =
            IF ~g.next THEN Refuse(r, g)
            ELSE IF ~fail /\ userImages # {}
            THEN [r EXCEPT !.pc = "adm_storage",
                           !.filePaths = {i.file_path : i \in userImages}]
            ELSE [r EXCEPT !.pc = "adm_user", !.fault = fail]]
    /\ UNCHANGED <<now, gate, users, images, objects, activities,
                   nextUserId, nextImageId, stamp>>

\* app.delete('/api/admin/users/:userId'): storage.remove(filePaths), its result
\* not looked at
DeleteUserStorage(s, fail) ==
    /\ reqs[s].pc = "adm_storage"
    /\ objects' = IF fail THEN objects ELSE objects \ reqs[s].filePaths
    /\ reqs' = [reqs EXCEPT ![s] =
          [reqs[s] EXCEPT !.pc = "adm_rows", !.fault = fail, !.removed = ~fail]]
    /\ UNCHANGED <<now, gate, users, images, activities, nextUserId, nextImageId, stamp>>

\* app.delete('/api/admin/users/:userId'): the user's image rows are deleted,
\* the result not looked at
DeleteUserImages(s, fail) ==
    /\ reqs[s].pc = "adm_rows"
    /\ images' = IF fail THEN images ELSE {i \in images : i.user_id # reqs[s].target}
    /\ reqs' = [reqs EXCEPT ![s] =
          [reqs[s] EXCEPT !.pc = "adm_user", !.fault = reqs[s].fault \/ fail]]
    /\ UNCHANGED <<now, gate, users, objects, activities, nextUserId, nextImageId, stamp>>

\* app.delete('/api/admin/users/:userId'): the user row is deleted
DeleteUserRow(s, fail) ==
    /\ reqs[s].pc = "adm_user"
    /\ LET r == reqs[s] IN
       IF fail
       THEN /\ reqs' = [reqs EXCEPT ![s] =
                  [Respond(r, 500, "Failed to delete user")
                     EXCEPT !.fault = TRUE, !.failedAt = "user"]]
            /\ UNCHANGED users
       ELSE /\ users' = {u \in users : u.id # r.target}
            /\ reqs' = [reqs EXCEPT ![s] = Respond(r, 200, "")]
    /\ UNCHANGED <<now, gate, images, objects, activities, nextUserId, nextImageId, stamp>>

InitImg ==
    /\ now = 0
    /\ gate = NoGate
    /\ users = {AdminRow, UserRow}
    /\ images = {}
    /\ objects = {}
    /\ activities = <<>>
    /\ nextUserId = 3
    /\ nextImageId = 1
    /\ stamp = 0
    /\ reqs = [s \in 1..MaxImgReqs |-> Idle]

(* Image requests, interleaved at their awaits. *)
NextImg ==
    \/ \E s \in 1..MaxImgReqs, h \in ImgHeaders, prompt \in Prompts, ok \in BOOLEAN :
          GenerateImageFetch(s, h, prompt, ok)
    \/ \E s \in 1..MaxImgReqs, fail \in BOOLEAN : GenerateImageUpload(s, fail)
    \/ \E s \in 1..MaxImgReqs, fail \in BOOLEAN : GenerateImageInsert(s, fail)
    \/ \E s \in 1..MaxImgReqs, fail \in BOOLEAN : GenerateImageLog(s, fail)
    \/ \E s \in 1..MaxImgReqs, h \in ImgHeaders, imageId \in 1..MaxImageId,
          fail \in BOOLEAN : DeleteImageFetch(s, h, imageId, fail)
    \/ \E s \in 1..MaxImgReqs, fail \in BOOLEAN : DeleteImageStorage(s, fail)
    \/ \E s \in 1..MaxImgReqs, fail \in BOOLEAN : DeleteImageRow(s, fail)
    \/ \E s \in 1..MaxImgReqs, fail \in BOOLEAN : DeleteImageLog(s, fail)
    \/ \E s \in 1..MaxImgReqs, h \in ImgHeaders, userId \in {AdminRow.id, UserRow.id},
          fail \in BOOLEAN : DeleteUserSelect(s, h, userId, fail)
    \/ \E s \in 1..MaxImgReqs, fail \in BOOLEAN : DeleteUserStorage(s, fail)
    \/ \E s \in 1..MaxImgReqs, fail \in BOOLEAN : DeleteUserImages(s, fail)
    \/ \E s \in 1..MaxImgReqs, fail \in BOOLEAN : DeleteUserRow(s, fail)

SpecImg == InitImg /\ [][NextImg]_vars

----------------------------------------------------------------------------
(* The account: profile read and update, password change, and the           *)
(* administrator's reading of one user                                       *)

\* requests of the account specification
MaxAccReqs == 2

\* `${userId}/${Date.now()}_${file.originalname}`, an object of the bucket
\* 'avatars'; as for the images, the clock read differs from one upload to the
\* next
AvatarPath(userId, t, originalname) ==
    [bucket |-> "avatars", user |-> userId, t |-> t, name |-> originalname]

\* supabase.storage.from('avatars').getPublicUrl(filePath).data.publicUrl
AvatarUrl(path) == [bucket |-> "avatars", path |-> path]

UsersById(userId) == {u \in users : u.id = userId}

\* .select('id, full_name, ...'): the named columns of a row
Columns(row, cols) == [c \in cols |-> row[c]]

\* the columns GET /api/profile selects (the timestamps are not modelled)
ProfileColumns == {"id", "full_name", "email", "bio", "avatar_url"}

\* { ...user, hashed_password: undefined } as res.json writes it: JSON.stringify
\* leaves out a key whose value is undefined
WithoutKey(row, key) == [c \in DOMAIN row \ {key} |-> row[c]]

\* .update(updateData) on one row
Updated(row, updateData) ==
    [c \in DOMAIN row |-> IF c \in DOMAIN updateData THEN updateData[c] ELSE row[c]]

UpdateDataAlwaysAvatar(body, avatarUrl) ==
    [c \in (IF "name" \in DOMAIN body THEN {"full_name"} ELSE {})
           \cup (IF "bio" \in DOMAIN body THEN {"bio"} ELSE {})
           \cup {"avatar_url"} |->
        CASE c = "full_name" -> body.name
          [] c = "bio" -> body.bio
          [] c = "avatar_url" -> avatarUrl]

\* updateData of PATCH /api/profile as it is sent: full_name and bio when the
\* form carries them (an undefined value is left out of the JSON), avatar_url
\* only when an avatar was uploaded
UpdateData(body, avatarUrl) ==
    [c \in (IF "name" \in DOMAIN body THEN {"full_name"} ELSE {})
           \cup (IF "bio" \in DOMAIN body THEN {"bio"} ELSE {})
           \cup (IF avatarUrl # NoUrl THEN {"avatar_url"} ELSE {}) |->
        CASE c = "full_name" -> body.name
          [] c = "bio" -> body.bio
          [] c = "avatar_url" -> avatarUrl]

\* the forms of PATCH /api/profile and the names of the uploaded file ("": the
\* form carries no file)
ProfileBodies == {[name |-> "Bob", bio |-> "hi"], [bio |-> "hi"]}
Files == {"", "me.png"}

\* app.get('/api/profile')
GetProfile(s, h, fail) ==
    /\ Free(s)
    /\ LET g == protect(h, now)
           r == [Idle EXCEPT !.kind = "getProfile", !.hdr = h, !.uid = g.user.userId]
           q == Single(UsersById(g.user.userId), fail)
       IN reqs' = [reqs EXCEPT ![s] =
            IF ~g.next THEN Refuse(r, g)
            ELSE IF q.error
            THEN [Respond(r, 500, "Failed to fetch profile.") EXCEPT !.fault = fail]
            ELSE [Respond(r, 200, "") EXCEPT !.user = Columns(q.data, ProfileColumns)]]
    /\ UNCHANGED <<now, gate, users, images, objects, activities,
                   nextUserId, nextImageId, stamp>>

\* app.patch('/api/profile'), step 2: .update(updateData).eq('id', userId)
\* .select().single(); the users table and the request after the call
UpdateProfileWrite(r, fail) ==
    LET rows == UsersById(r.uid)
        q == Single({Updated(u, UpdateData(r.body, r.avatarUrl)) : u \in rows}, fail)
    IN IF q.error
       THEN [users |-> users,
             req |-> [Respond(r, 500, "Failed to update profile")
                         EXCEPT !.fault = fail, !.failedAt = "update"]]
       ELSE [users |-> (users \ rows) \cup {q.data},
             req |-> [Respond(r, 200, "") EXCEPT !.user = q.data]]

\* app.patch('/api/profile'): protect, then the upload of the avatar when the
\* form carries a file, the update when it carries none
UpdateProfile(s, h, body, file, fail) ==
    /\ Free(s)
    /\ LET g == protect(h, now)
           r == [Idle EXCEPT !.kind = "updateProfile", !.hdr = h, !.uid = g.user.userId,
                             !.body = body, !.file = file]
           filePath == AvatarPath(g.user.userId, stamp + 1, file)
       IN IF ~g.next
          THEN /\ reqs' = [reqs EXCEPT ![s] = Refuse(r, g)]
               /\ UNCHANGED <<users, objects, stamp>>
          ELSE IF file # ""
          THEN /\ stamp' = stamp + 1
               /\ UNCHANGED users
               /\ IF fail \/ filePath \in objects
                  THEN /\ reqs' = [reqs EXCEPT ![s] =
                             [Respond(r, 500, "Failed to update profile")
                                EXCEPT !.fault = TRUE, !.failedAt = "upload"]]
                       /\ UNCHANGED objects
                  ELSE /\ objects' = objects \cup {filePath}
                       /\ reqs' = [reqs EXCEPT ![s] =
                             [r EXCEPT !.pc = "prof_update", !.filePath = filePath,
                                       !.avatarUrl = AvatarUrl(filePath)]]
          ELSE /\ users' = UpdateProfileWrite(r, fail).users
               /\ reqs' = [reqs EXCEPT ![s] = UpdateProfileWrite(r, fail).req]
               /\ UNCHANGED <<objects, stamp>>
    /\ UNCHANGED <<now, gate, images, activities, nextUserId, nextImageId>>

\* app.patch('/api/profile'): the update after the upload
UpdateProfileRow(s, fail) ==
    /\ reqs[s].pc = "prof_update"
    /\ users' = UpdateProfileWrite(reqs[s], fail).users
    /\ reqs' = [reqs EXCEPT ![s] = UpdateProfileWrite(reqs[s], fail).req]
    /\ UNCHANGED <<now, gate, images, objects, activities, nextUserId, nextImageId, stamp>>

\* the bodies of PATCH /api/change-password
ChangeBodies ==
    [currentPassword : {PwGood, PwOther}, newPassword : {PwGood, PwOther}]
    \cup {[currentPassword |-> PwGood, newPassword |-> <<>>],
          [currentPassword |-> PwGood, newPassword |-> MkPw(7, TRUE, FALSE)]}

ChangePasswordSkipsCompare(s, h, body, fail) ==
    /\ Free(s)
    /\ LET g == protect(h, now)
           r == [Idle EXCEPT !.kind = "changePassword", !.hdr = h, !.uid = g.user.userId,
                             !.password = body.currentPassword,
                             !.newPassword = body.newPassword]
           v == validatePassword(body.newPassword)
           q == Single(UsersById(g.user.userId), fail)
       IN reqs' = [reqs EXCEPT ![s] =
            IF ~g.next THEN Refuse(r, g)
            ELSE IF body.currentPassword = <<>> \/ body.newPassword = <<>>
            THEN Respond(r, 400, "Vui long cung cap mat khau hien tai va mat khau moi.")
            ELSE IF ~v.isValid
            THEN [Respond(r, 400, "Mat khau moi khong dap ung yeu cau bao mat")
                    EXCEPT !.details = errorMessages(v)]
            ELSE IF q.error
            THEN [Respond(r, 500, "Loi he thong trong qua trinh doi mat khau.")
                    EXCEPT !.fault = fail]
            ELSE [r EXCEPT !.pc = "chg_update", !.row = q.data]]
    /\ UNCHANGED <<now, gate, users, images, objects, activities,
                   nextUserId, nextImageId, stamp>>

\* app.patch('/api/change-password'): protect, the checks of the body, the read
\* of the stored hash and bcrypt.compare
ChangePassword(s, h, body, fail) ==
    /\ Free(s)
    /\ LET g == protect(h, now)
           r == [Idle EXCEPT !.kind = "changePassword", !.hdr = h, !.uid = g.user.userId,
                             !.password = body.currentPassword,
                             !.newPassword = body.newPassword]
           v == validatePassword(body.newPassword)
           q == Single(UsersById(g.user.userId), fail)
       IN reqs' = [reqs EXCEPT ![s] =
            IF ~g.next THEN Refuse(r, g)
            ELSE IF body.currentPassword = <<>> \/ body.newPassword = <<>>
            THEN Respond(r, 400, "Vui long cung cap mat khau hien tai va mat khau moi.")
            ELSE IF ~v.isValid
            THEN [Respond(r, 400, "Mat khau moi khong dap ung yeu cau bao mat")
                    EXCEPT !.details = errorMessages(v)]
            ELSE IF q.error
            THEN [Respond(r, 500, "Loi he thong trong qua trinh doi mat khau.")
                    EXCEPT !.fault = fail]
            ELSE IF ~BcryptCompare(body.currentPassword, q.data.hashed_password)
            THEN [Respond(r, 400, "Mat khau hien tai khong dung.") EXCEPT !.row = q.data]
            ELSE [r EXCEPT !.pc = "chg_update", !.row = q.data]]
    /\ UNCHANGED <<now, gate, users, images, objects, activities,
                   nextUserId, nextImageId, stamp>>

\* app.patch('/api/change-password'): bcrypt.hash and the update of the row
ChangePasswordUpdate(s, fail) ==
    /\ reqs[s].pc = "chg_update"
    /\ LET r == reqs[s]
           updateData == [hashed_password |-> BcryptHash(r.newPassword)]
       IN IF fail
          THEN /\ reqs' = [reqs EXCEPT ![s] =
                     [Respond(r, 500, "Loi he thong trong qua trinh doi mat khau.")
                        EXCEPT !.fault = TRUE, !.failedAt = "update"]]
               /\ UNCHANGED users
          ELSE /\ users' = (users \ UsersById(r.uid))
                              \cup {Updated(u, updateData) : u \in UsersById(r.uid)}
               /\ reqs' = [reqs EXCEPT ![s] = Respond(r, 200, "")]
    /\ UNCHANGED <<now, gate, images, objects, activities, nextUserId, nextImageId, stamp>>

\* app.get('/api/admin/users/:userId'): adminProtect and the read of the user
AdminGetUser(s, h, userId, fail) ==
    /\ Free(s)
    /\ LET g == adminProtect(h, now)
           r == [Idle EXCEPT !.kind = "adminGetUser", !.hdr = h, !.uid = g.user.userId,
                             !.target = userId]
           q == Single(UsersById(userId), fail)
       IN reqs' = [reqs EXCEPT ![s] =
            IF ~g.next THEN Refuse(r, g)
            ELSE IF q.error
            THEN [Respond(r, 500, "Failed to fetch user details") EXCEPT !.fault = fail]
            ELSE [r EXCEPT !.pc = "adm_images", !.row = q.data]]
    /\ UNCHANGED <<now, gate, users, images, objects, activities,
                   nextUserId, nextImageId, stamp>>

\* app.get('/api/admin/users/:userId'): the read of the user's images and the
\* response
AdminGetUserImages(s, fail) ==
    /\ reqs[s].pc = "adm_images"
    /\ LET r == reqs[s] IN
       reqs' = [reqs EXCEPT ![s] =
            IF fail
            THEN [Respond(r, 500, "Failed to fetch user details") EXCEPT !.fault = TRUE]
            ELSE [Respond(r, 200, "") EXCEPT
                    !.user = WithoutKey(r.row, "hashed_password"),
                    !.filePaths = {i.file_path : i \in {j \in images : j.user_id = r.target}}]]
    /\ UNCHANGED <<now, gate, users, images, objects, activities,
                   nextUserId, nextImageId, stamp>>

\* the logins of the account specification
AccLoginBodies == [email : {UserEmail}, password : {PwGood, PwOther}]

InitAcc ==
    /\ now = 0
    /\ gate = NoGate
    /\ users = {AdminRow, UserRow}
    /\ images = {}
    /\ objects = {}
    /\ activities = <<>>
    /\ nextUserId = 3
    /\ nextImageId = 1
    /\ stamp = 0
    /\ reqs = [s \in 1..MaxAccReqs |-> Idle]

(* Account requests, interleaved at their awaits. *)
NextAcc ==
    \/ \E s \in 1..MaxAccReqs, h \in ImgHeaders, fail \in BOOLEAN : GetProfile(s, h, fail)
    \/ \E s \in 1..MaxAccReqs, h \in ImgHeaders, body \in ProfileBodies, file \in Files,
          fail \in BOOLEAN : UpdateProfile(s, h, body, file, fail)
    \/ \E s \in 1..MaxAccReqs, fail \in BOOLEAN : UpdateProfileRow(s, fail)
    \/ \E s \in 1..MaxAccReqs, h \in ImgHeaders, body \in ChangeBodies, fail \in BOOLEAN :
          ChangePassword(s, h, body, fail)
    \/ \E s \in 1..MaxAccReqs, fail \in BOOLEAN : ChangePasswordUpdate(s, fail)
    \/ \E s \in 1..MaxAccReqs, h \in ImgHeaders, userId \in {AdminRow.id, UserRow.id},
          fail \in BOOLEAN : AdminGetUser(s, h, userId, fail)
    \/ \E s \in 1..MaxAccReqs, fail \in BOOLEAN : AdminGetUserImages(s, fail)
    \/ \E s \in 1..MaxAccReqs, body \in AccLoginBodies, fail \in BOOLEAN :
          Login(s, body, fail)

SpecAcc == InitAcc /\ [][NextAcc]_vars

----------------------------------------------------------------------------
(* The password policy, at its two callers *)

\* the longest candidate password
PolicyMaxLen == 9

\* candidate passwords: n characters of one filler, an uppercase letter at
\* position u and a special character at position sp (0: nowhere)
Candidate(n, u, sp, upper, special, filler) ==
    [i \in 1..n |-> IF i = u THEN upper ELSE IF i = sp THEN special ELSE filler]

PolicyPasswords ==
    {Candidate(n, u, sp, upper, special, filler) :
        n \in 0..PolicyMaxLen, u \in {0, 1, MinPwLen}, sp \in {0, 2, PolicyMaxLen},
        upper \in {"A", "Z"}, special \in {"!", ">"}, filler \in {"a", "1", "_"}}

NewEmail == "eve@mail.io"

(* One registration or one password change with a candidate password. *)
NextPw ==
    \/ \E password \in PolicyPasswords, fail \in BOOLEAN :
          Register(1, [fullName |-> "Eve", email |-> NewEmail, password |-> password], fail)
    \/ \E fail \in BOOLEAN : RegisterInsert(1, fail)
    \/ \E password \in PolicyPasswords, fail \in BOOLEAN :
          ChangePassword(1, UserHeader,
                         [currentPassword |-> PwGood, newPassword |-> password], fail)
    \/ \E fail \in BOOLEAN : ChangePasswordUpdate(1, fail)

SpecPw == InitAcc /\ [][NextPw]_vars

----------------------------------------------------------------------------
(* The paginated listings: the administrator's users and a user's activities *)

\* activity rows in the table when a listing runs
ListMaxActs == 2
\* the pages and the page sizes a listing asks for
ListMaxPage == 3
ListMaxLimit == 2
\* const { page = 1, limit = 10 } and const { page = 1, limit = 20 }
DefaultPage == 1
DefaultUserLimit == 10
DefaultActivityLimit == 20

BobRow == [id |-> 3, email |-> "bob@mail.io", full_name |-> "Bob",
           hashed_password |-> BcryptHash(PwOther), bio |-> "", avatar_url |-> NoUrl]

\* the characters of the names and emails in the table
Chars(str) ==
    CASE str = "Admin" -> <<"A", "d", "m", "i", "n">>
      [] str = "Ann" -> <<"A", "n", "n">>
      [] str = "Bob" -> <<"B", "o", "b">>
      [] str = AdminEmail -> <<"a", "d", "m", "i", "n", "@", "d", "r", "e", "a", "m",
                               "i", "n", "a", ".", "c", "o", "m">>
      [] str = UserEmail -> <<"u", "s", "e", "r", "@", "m", "a", "i", "l", ".", "i", "o">>
      [] str = "bob@mail.io" -> <<"b", "o", "b", "@", "m", "a", "i", "l", ".", "i", "o">>

Lower(c) ==
    CASE c = "A" -> "a" [] c = "B" -> "b" [] c = "N" -> "n" [] c = "O" -> "o"
      [] OTHER -> c

\* column ILIKE %term%
ILike(text, term) ==
    \E i \in 0..(Len(text) - Len(term)) :
        \A j \in 1..Len(term) : Lower(text[i + j]) = Lower(term[j])

\* .or(`full_name.ilike.%${search}%,email.ilike.%${search}%`), applied if (search)
SearchMatches(u, search) ==
    \/ search = <<>>
    \/ ILike(Chars(u.full_name), search)
    \/ ILike(Chars(u.email), search)

\* an absent query parameter takes the default of the destructuring
Param(query, key, default) == IF key \in DOMAIN query THEN query[key] ELSE default

\* the query strings: page and limit are decimal numerals of positive integers
\* (0 here: the parameter is not sent), search and action are sent or not
QueryOf(page, limit, keys, filter) ==
    [k \in (IF page = 0 THEN {} ELSE {"page"}) \cup (IF limit = 0 THEN {} ELSE {"limit"})
           \cup keys |->
        CASE k = "page" -> page [] k = "limit" -> limit [] OTHER -> filter]

UserQueries ==
    {QueryOf(page, limit, keys, search) :
        page \in 0..ListMaxPage, limit \in 0..ListMaxLimit, keys \in {{}, {"search"}},
        search \in {<<"a", "n">>, <<"B", "O">>, <<"z", "z">>}}

ActivityQueries ==
    {QueryOf(page, limit, keys, action) :
        page \in 0..ListMaxPage, limit \in 0..ListMaxLimit, keys \in {{}, {"action"}},
        action \in {"generate", "delete"}}

\* .order('created_at', { ascending: false }): ids are given in the order of
\* creation
RECURSIVE OrderDesc(_)
OrderDesc(rows) ==
    IF rows = {} THEN <<>>
    ELSE LET top == CHOOSE r \in rows : \A o \in rows : o.id <= r.id
         IN <<top>> \o OrderDesc(rows \ {top})

\* .order('timestamp', { ascending: false }) of a table kept in the order of
\* its inserts
Reverse(seq) == [i \in 1..Len(seq) |-> seq[Len(seq) + 1 - i]]

\* .range(from, to): the rows from..to of the result, counted from 0; none when
\* from is past the end
Range(seq, from, to) == SubSeq(seq, from + 1, Min(to + 1, Len(seq)))

\* Math.ceil(a / b), b >= 1
Ceil(a, b) == (a + b - 1) \div b

\* the columns the administrator's listing selects (the timestamps are not
\* modelled)
ListColumns == {"id", "full_name", "email", "bio", "avatar_url"}

\* app.get('/api/admin/users'): adminProtect and the page of users
AdminListUsers(s, h, query, fail) ==
    /\ Free(s)
    /\ LET g == adminProtect(h, now)
           r == [Idle EXCEPT !.kind = "listUsers", !.hdr = h, !.uid = g.user.userId,
                             !.query = query]
           page == Param(query, "page", DefaultPage)
           limit == Param(query, "limit", DefaultUserLimit)
           search == Param(query, "search", <<>>)
           offset == (page - 1) * limit
           found == OrderDesc({Columns(u, ListColumns) :
                                  u \in {w \in users : SearchMatches(w, search)}})
       IN reqs' = [reqs EXCEPT ![s] =
            IF ~g.next THEN Refuse(r, g)
            ELSE IF fail
            THEN [Respond(r, 500, "Failed to fetch users") EXCEPT !.fault = TRUE]
            ELSE [r EXCEPT !.pc = "users_count",
                           !.data = Range(found, offset, offset + limit - 1)]]
    /\ UNCHANGED <<now, gate, users, images, objects, activities,
                   nextUserId, nextImageId, stamp>>

\* app.get('/api/admin/users'): the count of the users table and the response;
\* the error of the count is not looked at (count is then null, and
\* Math.ceil(null / limit) is 0)
AdminListUsersCount(s, fail) ==
    /\ reqs[s].pc = "users_count"
    /\ LET r == reqs[s]
           limit == Param(r.query, "limit", DefaultUserLimit)
           totalUsers == IF fail THEN 0 ELSE Cardinality(users)
       IN reqs' = [reqs EXCEPT ![s] =
            [Respond(r, 200, "") EXCEPT
               !.fault = fail,
               !.pagination = [currentPage |-> Param(r.query, "page", DefaultPage),
                               totalPages |-> Ceil(totalUsers, limit),
                               total |-> totalUsers, totalIsNull |-> fail,
                               limit |-> limit]]]
    /\ UNCHANGED <<now, gate, users, images, objects, activities,
                   nextUserId, nextImageId, stamp>>

\* the activity rows of a user, filtered by the action if (action)
ActivitiesOf(userId, action) ==
    SelectSeq(activities,
              LAMBDA a : a.user_id = userId /\ (action = "" \/ a.action = action))

\* app.get('/api/activities'): protect and the test query .select('id').limit(1)
ListActivities(s, h, query, fail) ==
    /\ Free(s)
    /\ LET g == protect(h, now)
           r == [Idle EXCEPT !.kind = "listActivities", !.hdr = h,
                             !.uid = g.user.userId, !.query = query]
       IN reqs' = [reqs EXCEPT ![s] =
            IF ~g.next THEN Refuse(r, g)
            ELSE IF fail
            THEN [Respond(r, 500, "Activities table not found") EXCEPT !.fault = TRUE]
            ELSE [r EXCEPT !.pc = "acts_query"]]
    /\ UNCHANGED <<now, gate, users, images, objects, activities,
                   nextUserId, nextImageId, stamp>>

\* app.get('/api/activities'): the page of activities
ListActivitiesQuery(s, fail) ==
    /\ reqs[s].pc = "acts_query"
    /\ LET r == reqs[s]
           page == Param(r.query, "page", DefaultPage)
           limit == Param(r.query, "limit", DefaultActivityLimit)
           offset == (page - 1) * limit
           found == Reverse(ActivitiesOf(r.uid, Param(r.query, "action", "")))
       IN reqs' = [reqs EXCEPT ![s] =
            IF fail
            THEN [Respond(r, 500, "Failed to fetch activities") EXCEPT !.fault = TRUE]
            ELSE [r EXCEPT !.pc = "acts_count",
                           !.data = Range(found, offset, offset + limit - 1)]]
    /\ UNCHANGED <<now, gate, users, images, objects, activities,
                   nextUserId, nextImageId, stamp>>

\* app.get('/api/activities'): the count with the same filters and the
\* response; the error of the count is not looked at (totalActivities || 0)
ListActivitiesCount(s, fail) ==
    /\ reqs[s].pc = "acts_count"
    /\ LET r == reqs[s]
           limit == Param(r.query, "limit", DefaultActivityLimit)
           totalActivities ==
               IF fail THEN 0
               ELSE Len(ActivitiesOf(r.uid, Param(r.query, "action", "")))
       IN reqs' = [reqs EXCEPT ![s] =
            [Respond(r, 200, "") EXCEPT
               !.fault = fail,
               !.pagination = [currentPage |-> Param(r.query, "page", DefaultPage),
                               totalPages |-> Ceil(totalActivities, limit),
                               total |-> totalActivities, totalIsNull |-> FALSE,
                               limit |-> limit]]]
    /\ UNCHANGED <<now, gate, users, images, objects, activities,
                   nextUserId, nextImageId, stamp>>

\* the activity rows generations and deletions of the two users have left
ActivityRows ==
    [user_id : {AdminRow.id, UserRow.id}, action : {"generate", "delete"},
     image_id : {1}, additional_data : {<<>>}, by : {0}]

\* the tables when the listing runs: the administrator and any of the other
\* users, up to ListMaxActs activity rows; one request
InitList ==
    /\ now = 0
    /\ gate = NoGate
    /\ users \in {{AdminRow} \cup others : others \in SUBSET {UserRow, BobRow}}
    /\ images = {}
    /\ objects = {}
    /\ activities \in UNION {[1..n -> ActivityRows] : n \in 0..ListMaxActs}
    /\ nextUserId = 4
    /\ nextImageId = 2
    /\ stamp = 0
    /\ reqs = [s \in {1} |-> Idle]

NextList ==
    \/ \E h \in ImgHeaders, query \in UserQueries, fail \in BOOLEAN :
          AdminListUsers(1, h, query, fail)
    \/ \E fail \in BOOLEAN : AdminListUsersCount(1, fail)
    \/ \E h \in ImgHeaders, query \in ActivityQueries, fail \in BOOLEAN :
          ListActivities(1, h, query, fail)
    \/ \E fail \in BOOLEAN : ListActivitiesQuery(1, fail)
    \/ \E fail \in BOOLEAN : ListActivitiesCount(1, fail)

SpecList == InitList /\ [][NextList]_vars

----------------------------------------------------------------------------
(* The claims about the gates, registration and login *)

\* the token verifies at time t: signed with the server's secret and not expired
TokenValid(w, t) == w \in Tokens /\ w.key = Secret /\ t < w.exp

\* the header is "Bearer <something>..."
BearerShaped(h) == Len(h) >= 2 /\ h[1] = Lit("Bearer")

\* C1: behind protect, a request whose Authorization header is absent, does not
\* start with "Bearer ", or carries a token that fails signature or expiry
\* verification is answered 401 and the handler is not run; a request with a
\* valid token for user U reaches the handler with U's id on the request.
C1_AuthGate ==
    gate.mw = "protect" =>
        LET h == gate.hdr IN
        /\ (h = <<>> \/ ~BearerShaped(h) \/ ~TokenValid(h[2], gate.at))
              => gate.status = 401 /\ ~gate.ran
        /\ (BearerShaped(h) /\ TokenValid(h[2], gate.at))
              => gate.ran /\ gate.status = 0 /\ gate.user.userId = h[2].userId

\* a valid token of user 2, one tick after the start, reached a protected handler
C1_Witness ==
    /\ gate.mw = "protect" /\ gate.ran /\ gate.at = 1
    /\ gate.hdr = Bearer(JwtSign(2, UserEmail, 1))
    /\ gate.user.userId = 2

\* C2: behind adminProtect, on every admin route, a valid token whose email is
\* not the administrator's and whose role is not "admin" is answered 403 without
\* running the handler; a valid token with the administrator's email or the role
\* "admin" passes; a missing, malformed or unverifiable token is answered 401.
C2_AdminGate ==
    gate.mw = "adminProtect" =>
        LET h == gate.hdr IN
        /\ gate.route \in AdminRoutes
        /\ (h = <<>> \/ ~BearerShaped(h) \/ ~TokenValid(h[2], gate.at))
              => gate.status = 401 /\ ~gate.ran
        /\ (BearerShaped(h) /\ TokenValid(h[2], gate.at)
              /\ h[2].email # AdminEmail /\ h[2].role # "admin")
              => gate.status = 403 /\ ~gate.ran
        /\ (BearerShaped(h) /\ TokenValid(h[2], gate.at)
              /\ (h[2].email = AdminEmail \/ h[2].role = "admin"))
              => gate.ran /\ gate.status = 0 /\ gate.user.userId = h[2].userId

\* a valid token with an ordinary email and the role "user" was refused on the
\* user deletion route
C2_Witness ==
    /\ gate.mw = "adminProtect" /\ gate.route = "DELETE /api/admin/users/:userId"
    /\ BearerShaped(gate.hdr) /\ TokenValid(gate.hdr[2], gate.at)
    /\ gate.hdr[2].email = UserEmail /\ gate.hdr[2].role = "user"
    /\ gate.status = 403

\* the request passed the body checks of the registration handler
ValidRegistration(r) ==
    /\ r.kind = "register"
    /\ r.fullName # "" /\ r.email # "" /\ r.password # <<>>
    /\ validatePassword(r.password).isValid

\* C3: a registration with a complete, policy-valid body for an email that an
\* earlier registration already stored is answered 400, and the users table
\* holds exactly one row for that email.
C3_SecondRegistrationRejected ==
    \A s \in 1..MaxAuthReqs :
        (Done(s) /\ ValidRegistration(reqs[s]) /\ reqs[s].stored)
            => /\ reqs[s].status = 400
               /\ Cardinality(UsersByEmail(reqs[s].email)) = 1

\* C4: under any interleaving of registration requests whose database calls all
\* succeed, no two user rows have the same email.
C4_EmailUnique ==
    (\A s \in 1..MaxAuthReqs : ~reqs[s].fault)
        => \A u1, u2 \in users : u1.email = u2.email => u1 = u2

\* a login request that carried an email and a password and was answered
AnsweredLogin(r) ==
    r.kind = "login" /\ r.pc = "done" /\ r.email # "" /\ r.password # <<>>

\* what the client receives
Response(r) ==
    [status |-> r.status, error |-> r.error, details |-> r.details,
     token |-> r.token, user |-> r.user]

----------------------------------------------------------------------------
(* The claims about images *)

\* the activity rows request s appended for this user, action and image
Logged(s, userId, action, imageId) ==
    {k \in DOMAIN activities :
        /\ activities[k].by = s /\ activities[k].user_id = userId
        /\ activities[k].action = action /\ activities[k].image_id = imageId}

\* the user a request's token names
TokenUser(r) == r.hdr[2].userId

Answered200(s, kind) ==
    reqs[s].kind = kind /\ reqs[s].pc = "done" /\ reqs[s].status = 200

\* C7: a deletion request by an authenticated user for an image id that does
\* not exist or belongs to another user, the lookup itself not failing, is
\* answered 404 and leaves the images table, the storage and the activities
\* table unchanged.
C7_MissingImageDelete ==
    [][\A s \in 1..MaxImgReqs :
          (/\ reqs[s].pc = "idle" /\ reqs'[s].kind = "delete"
           /\ reqs'[s].uid # 0 /\ ~reqs'[s].fault
           /\ ~\E i \in images : i.id = reqs'[s].imageId /\ i.user_id = reqs'[s].uid)
             => /\ reqs'[s].pc = "done" /\ reqs'[s].status = 404
                /\ UNCHANGED <<images, objects, activities>>]_vars

\* C8 as stated: whenever the owner's deletion is answered 200, the storage
\* object has been removed, the image row has been removed, and the request has
\* appended exactly one activity entry tagged "delete" for that user and image.
C8_DeleteRemovesAll ==
    \A s \in 1..MaxImgReqs :
        Answered200(s, "delete") =>
            /\ reqs[s].image.file_path \notin objects
            /\ ~\E i \in images : i.id = reqs[s].imageId
            /\ Cardinality(Logged(s, TokenUser(reqs[s]), "delete", reqs[s].imageId)) = 1

\* C8 amended: whenever the owner's deletion is answered 200, the image row has
\* been removed; the storage object has been removed unless the storage removal
\* failed; and the request has appended one activity entry tagged "delete" for
\* that user and image unless the insert into activities failed, and none then.
C8_DeleteRemovesRow ==
    \A s \in 1..MaxImgReqs :
        Answered200(s, "delete") =>
            /\ ~\E i \in images : i.id = reqs[s].imageId
            /\ reqs[s].removed => reqs[s].image.file_path \notin objects
            /\ Cardinality(Logged(s, TokenUser(reqs[s]), "delete", reqs[s].imageId))
                  = IF reqs[s].logged THEN 1 ELSE 0
            /\ \A k \in DOMAIN activities :
                  activities[k].by = s
                     => k \in Logged(s, TokenUser(reqs[s]), "delete", reqs[s].imageId)

\* the user deleted an image of theirs; object, row and log entry all went through
C8_Witness ==
    \E s \in 1..MaxImgReqs :
        /\ Answered200(s, "delete") /\ reqs[s].hdr = UserHeader
        /\ reqs[s].image.user_id = UserRow.id
        /\ reqs[s].removed /\ reqs[s].logged
        /\ objects = {} /\ images = {} /\ Len(activities) = 2

\* the first n characters of a string
FirstChars(str, n) == [i \in 1..(IF Len(str) < n THEN Len(str) ELSE n) |-> str[i]]

\* the activity rows request s appended for its generated image
GenerateLogged(s) ==
    {k \in Logged(s, TokenUser(reqs[s]), "generate", reqs[s].imageId) :
        activities[k].additional_data = [prompt |-> FirstChars(reqs[s].prompt, 100)]}

\* C9 as stated: whenever a generation by user U is answered 200, the response
\* carries an imageUrl and an imageId, an image row with that id exists, owned by
\* U, with the submitted prompt, and an activity row for U with action
\* "generate", that image id and the prompt's first 100 characters exists.
C9_GenerateLogged ==
    \A s \in 1..MaxImgReqs :
        Answered200(s, "generate") =>
            /\ reqs[s].imageUrl # NoUrl /\ reqs[s].imageId # 0
            /\ \E i \in images :
                  /\ i.id = reqs[s].imageId /\ i.user_id = TokenUser(reqs[s])
                  /\ i.prompt = reqs[s].prompt
            /\ GenerateLogged(s) # {}

\* C9 amended: whenever a generation by user U is answered 200, the response
\* carries an imageUrl and an imageId; the request has inserted an image row
\* with that id, owned by U, with the submitted prompt and that URL, and the row
\* is still there unless a deletion has removed it; and the request has appended
\* one activity row for U with action "generate", that image id and the prompt's
\* first 100 characters unless the insert into activities failed, and none then.
C9_GenerateBestEffortLog ==
    \A s \in 1..MaxImgReqs :
        Answered200(s, "generate") =>
            LET r == reqs[s] IN
            /\ r.imageUrl # NoUrl /\ r.imageId # 0
            /\ r.imageRecord.id = r.imageId
            /\ r.imageRecord.user_id = TokenUser(r)
            /\ r.imageRecord.prompt = r.prompt
            /\ r.imageRecord.image_url = r.imageUrl
            /\ r.imageRecord \in images \/ ~\E i \in images : i.id = r.imageId
            /\ Cardinality(GenerateLogged(s)) = IF r.logged THEN 1 ELSE 0
            /\ \A k \in DOMAIN activities : activities[k].by = s => k \in GenerateLogged(s)

\* the user generated an image from a prompt of 101 characters, and the row and
\* the log entry with the 100-character snippet are in place
C9_Witness ==
    \E s \in 1..MaxImgReqs :
        /\ Answered200(s, "generate") /\ reqs[s].hdr = UserHeader
        /\ Len(reqs[s].prompt) = 101 /\ reqs[s].logged
        /\ reqs[s].imageRecord \in images
        /\ \E k \in GenerateLogged(s) : Len(activities[k].additional_data.prompt) = 100

\* C10: in every reachable state, every row of the images table has a user_id
\* for which a users row exists.
C10_ImagesReferenceUsers ==
    \A i \in images : \E u \in users : u.id = i.user_id

----------------------------------------------------------------------------
(* The claims about best-effort logging, aborted generations and the deletion
   of a user *)

\* the request in slot s takes a step
Moves(s) == reqs'[s] # reqs[s]

\* C11: activity logging never fails the primary request: whatever the insert
\* into activities does (it succeeds, returns an error or throws), the step that
\* calls logActivity answers the generation or deletion request 200 and leaves
\* the images table, with the row the request inserted or deleted, as it is.
C11_LoggingNeverFailsRequest ==
    [][\A s \in DOMAIN reqs :
          (reqs[s].pc \in {"gen_log", "del_log"} /\ Moves(s)) =>
              /\ reqs'[s].pc = "done" /\ reqs'[s].status = 200
              /\ images' = images
              /\ activities' # activities => reqs'[s].logged]_vars

\* a generation and the deletion of its image were both answered 200 although
\* neither activity insert succeeded: the row was inserted and is deleted
C11_Witness ==
    /\ Answered200(1, "generate") /\ ~reqs[1].logged
    /\ Answered200(2, "delete") /\ ~reqs[2].logged
    /\ reqs[2].imageId = reqs[1].imageId /\ reqs[2].image = reqs[1].imageRecord
    /\ images = {} /\ activities = <<>>

\* C16: a generation aborts on its first failing step (the generator answers a
\* non-success status, the upload fails, the insert of the image row fails): in
\* that step the request is answered 500 with the message of the underlying
\* error, no later step has run, and the request has created no image row and
\* no activity row.
C16_GenerateAborts ==
    [][\A s \in DOMAIN reqs :
          (reqs'[s].kind = "generate" /\ reqs'[s].failedAt # "" /\ Moves(s)) =>
              LET r == reqs'[s] IN
              /\ r.pc = "done" /\ r.status = 500
              /\ r.error = "Failed to generate image"
              /\ r.message = ErrorMessage(r.failedAt)
              /\ r.failedAt = "fetch" => r.filePath = NoPath /\ objects' = objects
              /\ r.failedAt = "upload" => r.filePath = NoPath /\ objects' = objects
              /\ r.imageRecord = NoRow /\ r.imageId = 0
              /\ images' = images /\ nextImageId' = nextImageId
              /\ activities' = activities
              /\ \A k \in DOMAIN activities : activities[k].by # s]_vars

\* the insert of the image row failed after the upload: the request is answered
\* 500 with dbError.message, and no image row and no activity row exist
C16_Witness ==
    \E s \in DOMAIN reqs :
        /\ reqs[s].kind = "generate" /\ reqs[s].failedAt = "insert"
        /\ reqs[s].status = 500 /\ reqs[s].message = "dbError.message"
        /\ reqs[s].filePath \in objects
        /\ images = {} /\ activities = <<>>

\* C17: the deletion of a user removes the storage objects, then the image rows,
\* then the user row; a failed storage removal or image-row deletion does not
\* keep the later steps from running and only a failed deletion of the user row
\* is reported (500); whenever the request is answered 200, neither the user row
\* nor any image row of that user remains.
C17_DeleteUserLeavesNothing ==
    \A s \in DOMAIN reqs :
        /\ (reqs[s].kind = "deleteUser" /\ reqs[s].pc = "adm_rows")
               => reqs[s].removed \/ reqs[s].fault
        /\ (reqs[s].kind = "deleteUser" /\ reqs[s].pc = "done" /\ reqs[s].status = 500)
               => reqs[s].failedAt = "user"
        /\ Answered200(s, "deleteUser") =>
              /\ \A u \in users : u.id # reqs[s].target
              /\ \A i \in images : i.user_id # reqs[s].target

----------------------------------------------------------------------------
(* The claims about the account *)

\* the password policy as the registration form states it
PolicyOk(p) ==
    /\ Len(p) >= MinPwLen
    /\ \E i \in DOMAIN p : p[i] \in UpperChars
    /\ \E i \in DOMAIN p : p[i] \in SpecialChars

\* a login with this email and password is answered 200
LoginAccepts(email, password) ==
    LET q == Single(UsersByEmail(email), FALSE)
    IN ~q.error /\ BcryptCompare(password, q.data.hashed_password)

\* the step of a password change writes the users table only after both
\* passwords were supplied, the new one satisfies the policy and the current one
\* matched the hash the handler read
ChangeWritesOnlyChecked(s) ==
    LET r == reqs'[s] IN
    users' # users =>
        /\ r.password # <<>> /\ r.newPassword # <<>> /\ PolicyOk(r.newPassword)
        /\ BcryptCompare(r.password, r.row.hashed_password)
        /\ r.status = 200
        /\ \A u \in users : u.id # r.uid => u \in users'
        /\ \A u \in users' : u.id = r.uid =>
               /\ u.hashed_password = BcryptHash(r.newPassword)
               /\ \E o \in users : o = [u EXCEPT !.hashed_password = o.hashed_password]

\* the password change in slot s is answered 400 in this step, both passwords
\* supplied: the new password fails the policy or the current one mismatches
ChangeRefused(s) ==
    /\ reqs'[s].kind = "changePassword" /\ Moves(s)
    /\ reqs'[s].status = 400
    /\ reqs'[s].password # <<>> /\ reqs'[s].newPassword # <<>>

C15_ProfileUpdateFrame ==
    [][\A s \in DOMAIN reqs :
          (reqs'[s].kind = "updateProfile" /\ Moves(s)) =>
              LET r == reqs'[s]
                  before == {u \in users : u.id = r.uid}
                  after == {u \in users' : u.id = r.uid}
              IN /\ users \ before = users' \ after
                 /\ users' # users => r.status = 200 /\ r.user \in after
                 /\ r.file = "" =>
                       /\ objects' = objects
                       /\ {u.avatar_url : u \in after} = {u.avatar_url : u \in before}
                 /\ (r.file # "" /\ r.pc = "prof_update") =>
                       /\ users' = users
                       /\ r.filePath \notin objects /\ r.filePath \in objects'
                       /\ r.avatarUrl = AvatarUrl(r.filePath)
                 /\ (r.file # "" /\ r.status = 200) =>
                       /\ r.filePath \in objects
                       /\ \A u \in after : u.avatar_url = AvatarUrl(r.filePath)
                 /\ r.failedAt = "upload" =>
                       /\ users' = users /\ objects' = objects
                       /\ r.pc = "done" /\ r.status = 500]_vars

\* user 2 uploaded an avatar and then sent the form without a file: the row has
\* the new name and still the url of the uploaded object; the administrator's
\* row is as it was
C15_Witness ==
    /\ reqs[1].kind = "updateProfile" /\ reqs[1].file = "me.png" /\ reqs[1].status = 200
    /\ reqs[2].kind = "updateProfile" /\ reqs[2].file = "" /\ reqs[2].status = 200
    /\ reqs[1].uid = UserRow.id /\ reqs[2].uid = UserRow.id
    /\ reqs[2].body = [name |-> "Bob", bio |-> "hi"]
    /\ reqs[1].filePath \in objects
    /\ users = {AdminRow, [UserRow EXCEPT !.full_name = "Bob", !.bio = "hi",
                                          !.avatar_url = AvatarUrl(reqs[1].filePath)]}

\* C18: no response of any endpoint contains a user's stored password hash: the
\* user data returned by registration, login, the profile read, the profile
\* update, the password change, the administrator's listing and the
\* administrator's user detail has no hashed_password.
C18_NoHashInResponses ==
    \A s \in DOMAIN reqs :
        reqs[s].pc = "done" =>
            /\ "hashed_password" \notin DOMAIN reqs[s].user
            /\ \A k \in DOMAIN reqs[s].data :
                  "hashed_password" \notin DOMAIN reqs[s].data[k]

\* the candidate password of a registration or a password change, and whether
\* the request got as far as validatePassword
Candidates(r) == IF r.kind = "register" THEN r.password ELSE r.newPassword
Validated(r) ==
    IF r.kind = "register"
    THEN r.fullName # "" /\ r.email # "" /\ r.password # <<>>
    ELSE r.status # 401 /\ r.password # <<>> /\ r.newPassword # <<>>

\* C12: validatePassword reports isValid exactly when the password has at least
\* 8 characters, an uppercase letter A-Z and a special character; each failing
\* rule yields its own non-null message and each holding rule none, so that a
\* registration or a password change with a policy-invalid password is answered
\* 400 with exactly the messages of the failed rules.
C12_PasswordPolicy ==
    \A s \in DOMAIN reqs :
        reqs[s].kind \in {"register", "changePassword"} =>
            LET r == reqs[s]
                p == Candidates(r)
                v == validatePassword(p)
                long == Len(p) >= 8
                upper == \E i \in DOMAIN p : p[i] \in UpperChars
                special == \E i \in DOMAIN p : p[i] \in SpecialChars
                failed == (IF long THEN <<>> ELSE <<MsgMinLength>>)
                          \o (IF upper THEN <<>> ELSE <<MsgUppercase>>)
                          \o (IF special THEN <<>> ELSE <<MsgSpecial>>)
            IN /\ v.isValid <=> (long /\ upper /\ special)
               /\ v.errors.minLength = (IF long THEN Null ELSE MsgMinLength)
               /\ v.errors.hasUppercase = (IF upper THEN Null ELSE MsgUppercase)
               /\ v.errors.hasSpecialChar = (IF special THEN Null ELSE MsgSpecial)
               /\ Cardinality({Null, MsgMinLength, MsgUppercase, MsgSpecial}) = 4
               /\ Validated(r) =>
                     IF long /\ upper /\ special
                     THEN r.details = <<>>
                     ELSE r.pc = "done" /\ r.status = 400 /\ r.details = failed

\* a registration with 8 characters and a special character but no uppercase
\* letter was answered 400 with the one message of the uppercase rule, and so
\* would a password change with 7 characters, an uppercase letter and no
\* special character be with two messages
C12_Witness ==
    /\ reqs[1].kind = "register" /\ reqs[1].status = 400
    /\ reqs[1].password = Candidate(8, 0, 2, "A", "!", "a")
    /\ reqs[1].details = <<MsgUppercase>>
    /\ errorMessages(validatePassword(Candidate(7, 1, 0, "A", "!", "1")))
          = <<MsgMinLength, MsgSpecial>>

----------------------------------------------------------------------------
(* The claim about the listings *)

\* the rows of the table that match the filter of the listing request r
Matching(r) ==
    IF r.kind = "listUsers"
    THEN Cardinality({u \in users : SearchMatches(u, Param(r.query, "search", <<>>))})
    ELSE Len(ActivitiesOf(r.uid, Param(r.query, "action", "")))

\* C13: in the administrator's user listing and in the activity listing,
\* totalPages is ceil(totalCount / limit), totalCount being the reported total
\* and the number of rows that match the request's filter (the search term for
\* users; the user and the action for activities); a page beyond totalPages is
\* answered 200 with an empty array and the same metadata.
C13_Pagination ==
    \A s \in DOMAIN reqs :
        (reqs[s].kind \in {"listUsers", "listActivities"} /\ reqs[s].pc = "done"
            /\ reqs[s].status = 200) =>
            LET r == reqs[s]
                pg == r.pagination
            IN /\ ~pg.totalIsNull /\ pg.total = Matching(r)
               /\ pg.totalPages * pg.limit >= pg.total
               /\ (pg.totalPages - 1) * pg.limit < pg.total \/ pg.total = 0
               /\ pg.currentPage > pg.totalPages => r.data = <<>>

====
